---- MODULE Spec2Model ----
(***************************************************************************)
(* A model of the Rescue CPR backend (Movenanter/Rescue):                  *)
(*   - generate_guidance (src/backend/main.py, main_old_keras.py): the     *)
(*     rule-based feedback synthesis, evaluated rule by rule;              *)
(*   - analyze_cpr_image_with_replicate (src/backend/main_old_keras.py):   *)
(*     the fallback chain over the vision-language (Replicate), remote     *)
(*     (ML service) and local (MediaPipe + CNN) backends.                  *)
(*   - analyze_cpr_image, analyze_hands, upload_photo and get_sessions     *)
(*     (src/backend/main.py): the local analysis, the photo store (one     *)
(*     file per frame) and the sessions derived from it, together with     *)
(*     the session start / end calls that src/test_system.py makes.        *)
(*                                                                         *)
(* Units.  Python floats are modelled on fixed grids of integers:          *)
(*   arm_angle in degrees, depth in hundredths of an inch, hand_x and      *)
(*   phase in hundredths of the image fraction, quality in percent.        *)
(* A Python dict is a TLA+ function whose DOMAIN is its key set, so that   *)
(* dict.get(key, default) is Get below and a missing key is visible.       *)
(***************************************************************************)
EXTENDS Integers, Sequences, FiniteSets, TLC

VARIABLES
    \* ---- generate_guidance, one evaluation in progress ----
    gver,        \* which module's generate_guidance runs: "main" or "old"
    gpc,         \* position in generate_guidance
    analysis,    \* the argument dict
    feedback,    \* local variable feedback (a list of strings)
    priority,    \* local variable priority
    guidance,    \* the returned dict (NoDict until the return)
    \* ---- the fallback chain, one call in progress ----
    cpc,         \* position in analyze_cpr_image_with_replicate
    image,       \* the image_bytes argument, abstracted
    pending,     \* what the backend in flight is going to do
    invoked,     \* backends invoked by this call, in order
    returned,    \* the dicts those backends returned, in order
    chainResult, \* the dict the chain returned (NoDict until the return)
    USE_ML_SERVICE, \* module-level configuration flag
    pose_detector,  \* module-level: MediaPipe initialised
    cnn_model,      \* module-level: regression model loaded
    \* ---- main.py: the photo store and the session endpoints ----
    now,         \* the wall clock, in seconds
    files,       \* PHOTOS_DIR: file name -> content of its _analysis.json
    table,       \* the session table: session id -> its record
    nreq,        \* requests served
    last,        \* the last request and its response
    response,    \* the response of GET /sessions, until the next request
    \* ---- extract_frames_from_video, one call in progress ----
    xpc,            \* position in extract_frames_from_video
    cap,            \* the cv2.VideoCapture: opened, frames, frames read
    frame_interval, \* the frame_interval argument
    frame_count,    \* local variable frame_count
    saved_count,    \* local variable saved_count
    written,        \* frame indices of the files written to output_dir
    extracted,      \* the returned count (NoCount until the return)
    \* ---- main.py: the import-time model loading ----
    bpc,         \* "import" while the module body runs, then "started"
    disk,        \* which of the two model files exist
    boot         \* what the start-up block did

gvars == <<gver, gpc, analysis, feedback, priority, guidance>>
cvars == <<cpc, image, pending, invoked, returned, chainResult,
           USE_ML_SERVICE, pose_detector, cnn_model>>
svars == <<now, files, table, nreq, last, response>>
xvars == <<xpc, cap, frame_interval, frame_count, saved_count, written,
           extracted>>
bvars == <<bpc, disk, boot>>
vars == <<gvars, cvars, svars, xvars, bvars>>

(***************************************************************************)
(* Python dict helpers                                                     *)
(***************************************************************************)
\* the value of a variable that holds no dict yet (None)
NoDict == [none |-> TRUE]

\* the empty dict {}
EmptyDict == <<>>

\* dict.get(key, default)
Get(d, key, default) == IF key \in DOMAIN d THEN d[key] ELSE default

\* d[key] = value on a dict (adds the key when it is missing)
Put(d, key, value) ==
    [k \in (DOMAIN d) \cup {key} |-> IF k = key THEN value ELSE d[k]]

\* truthiness of analysis.get("error"): a missing key (None) and the empty
\* string are both falsy
ErrorTruthy(d) == Get(d, "error", "") # ""

\* the error field is set (the key is present, whatever its value)
HasError(d) == "error" \in DOMAIN d

Abs(x) == IF x < 0 THEN -x ELSE x

(***************************************************************************)
(* generate_guidance: thresholds                                           *)
(***************************************************************************)
ARM_CRITICAL == 150
ARM_WARNING == 160
DEPTH_CRITICAL == 180
DEPTH_LOW == 200
DEPTH_HIGH == 240
HAND_CENTER == 50
HAND_WARN == 15
HANDS_CENTERED == 10
PHASE_DOWN == 50

MSG_ARM_CRITICAL == "STRAIGHTEN YOUR ARMS"
MSG_ARM_WARNING == "Arms need to be straighter"
MSG_DEPTH_CRITICAL == "PRESS DEEPER - at least 2 inches"
MSG_DEPTH_LOW == "Press a bit deeper"
MSG_DEPTH_HIGH == "Too deep - ease up"
MSG_HAND == "CENTER YOUR HANDS on the chest"
MSG_GOOD == "Good CPR technique! Keep going!"

(***************************************************************************)
(* generate_guidance: the rules.  Each takes the argument dict and the     *)
(* locals st = [feedback, priority] and gives the locals after the rule.   *)
(***************************************************************************)
\* feedback = [], priority = "normal"
InitLocals == [feedback |-> <<>>, priority |-> "normal"]

\* mutant: the critical bound of the arm rule is off by one (<= 150)
ArmRuleInclusive(a, st) ==
    IF Get(a, "pose_detected", FALSE)
    THEN LET arm_angle == Get(a, "arm_angle", 0) IN
         IF arm_angle <= ARM_CRITICAL
         THEN [feedback |-> Append(st.feedback, MSG_ARM_CRITICAL),
               priority |-> "critical"]
         ELSE IF arm_angle < ARM_WARNING
         THEN [feedback |-> Append(st.feedback, MSG_ARM_WARNING),
               priority |-> "warning"]
         ELSE st
    ELSE st

\* if analysis.get("pose_detected"): arm angle rule
ArmRule(a, st) ==
    IF Get(a, "pose_detected", FALSE)
    THEN LET arm_angle == Get(a, "arm_angle", 0) IN
         IF arm_angle < ARM_CRITICAL
         THEN [feedback |-> Append(st.feedback, MSG_ARM_CRITICAL),
               priority |-> "critical"]
         ELSE IF arm_angle < ARM_WARNING
         THEN [feedback |-> Append(st.feedback, MSG_ARM_WARNING),
               priority |-> "warning"]
         ELSE st
    ELSE st

\* mutant: the warning branches of the depth rule assign the priority
\* without looking at its current value
DepthRuleOverwrites(a, st) ==
    LET depth == Get(a, "depth", 0) IN
    IF depth > 0
    THEN IF depth < DEPTH_CRITICAL
         THEN [feedback |-> Append(st.feedback, MSG_DEPTH_CRITICAL),
               priority |-> "critical"]
         ELSE IF depth < DEPTH_LOW
         THEN [feedback |-> Append(st.feedback, MSG_DEPTH_LOW),
               priority |-> "warning"]
         ELSE IF depth > DEPTH_HIGH
         THEN [feedback |-> Append(st.feedback, MSG_DEPTH_HIGH),
               priority |-> "warning"]
         ELSE st
    ELSE st

\* mutant: the upper bound of the target band is exclusive (>= 2.4)
DepthRuleBandOpen(a, st) ==
    LET depth == Get(a, "depth", 0) IN
    IF depth > 0
    THEN IF depth < DEPTH_CRITICAL
         THEN [feedback |-> Append(st.feedback, MSG_DEPTH_CRITICAL),
               priority |-> "critical"]
         ELSE IF depth < DEPTH_LOW
         THEN [feedback |-> Append(st.feedback, MSG_DEPTH_LOW),
               priority |-> IF st.priority = "normal" THEN "warning"
                            ELSE st.priority]
         ELSE IF depth >= DEPTH_HIGH
         THEN [feedback |-> Append(st.feedback, MSG_DEPTH_HIGH),
               priority |-> IF st.priority = "normal" THEN "warning"
                            ELSE st.priority]
         ELSE st
    ELSE st

\* mutant: the depth rule also runs on a depth that was not measured
DepthRuleUnmeasured(a, st) ==
    LET depth == Get(a, "depth", 0) IN
    IF depth < DEPTH_CRITICAL
    THEN [feedback |-> Append(st.feedback, MSG_DEPTH_CRITICAL),
          priority |-> "critical"]
    ELSE IF depth < DEPTH_LOW
    THEN [feedback |-> Append(st.feedback, MSG_DEPTH_LOW),
          priority |-> IF st.priority = "normal" THEN "warning"
                       ELSE st.priority]
    ELSE IF depth > DEPTH_HIGH
    THEN [feedback |-> Append(st.feedback, MSG_DEPTH_HIGH),
          priority |-> IF st.priority = "normal" THEN "warning"
                       ELSE st.priority]
    ELSE st

\* depth = analysis.get("depth", 0); if depth > 0: depth rule
DepthRule(a, st) ==
    LET depth == Get(a, "depth", 0) IN
    IF depth > 0
    THEN IF depth < DEPTH_CRITICAL
         THEN [feedback |-> Append(st.feedback, MSG_DEPTH_CRITICAL),
               priority |-> "critical"]
         ELSE IF depth < DEPTH_LOW
         THEN [feedback |-> Append(st.feedback, MSG_DEPTH_LOW),
               priority |-> IF st.priority = "normal" THEN "warning"
                            ELSE st.priority]
         ELSE IF depth > DEPTH_HIGH
         THEN [feedback |-> Append(st.feedback, MSG_DEPTH_HIGH),
               priority |-> IF st.priority = "normal" THEN "warning"
                            ELSE st.priority]
         ELSE st
    ELSE st

\* mutant: the hand rule appends its message and forgets the priority
HandRuleNoPriority(a, st) ==
    LET hand_x == Get(a, "hand_x", HAND_CENTER) IN
    IF Abs(hand_x - HAND_CENTER) > HAND_WARN
    THEN [feedback |-> Append(st.feedback, MSG_HAND),
          priority |-> st.priority]
    ELSE st

\* mutant: the hand rule fires at the threshold offset too
HandRuleInclusive(a, st) ==
    LET hand_x == Get(a, "hand_x", HAND_CENTER) IN
    IF Abs(hand_x - HAND_CENTER) >= HAND_WARN
    THEN [feedback |-> Append(st.feedback, MSG_HAND),
          priority |-> IF st.priority = "normal" THEN "warning"
                       ELSE st.priority]
    ELSE st

\* hand_x = analysis.get("hand_x", 0.5); hand position rule
HandRule(a, st) ==
    LET hand_x == Get(a, "hand_x", HAND_CENTER) IN
    IF Abs(hand_x - HAND_CENTER) > HAND_WARN
    THEN [feedback |-> Append(st.feedback, MSG_HAND),
          priority |-> IF st.priority = "normal" THEN "warning"
                       ELSE st.priority]
    ELSE st

\* the "metrics" dict of the return value
Metrics(a) ==
    [arm_angle |-> Get(a, "arm_angle", 0),
     depth_inches |-> Get(a, "depth", 0),
     quality_percent |-> Get(a, "quality", 0),
     hands_centered |->
         Abs(Get(a, "hand_x", HAND_CENTER) - HAND_CENTER) < HANDS_CENTERED,
     compression_phase |->
         IF Get(a, "phase", 0) > PHASE_DOWN THEN "down" ELSE "up"]

\* mutant: the instruction is the message of the last rule that fired
FinishLastMessage(a, st) ==
    [instruction |-> IF Len(st.feedback) = 0 THEN MSG_GOOD
                     ELSE st.feedback[Len(st.feedback)],
     all_feedback |-> st.feedback,
     priority |-> IF Len(st.feedback) = 0 THEN "good" ELSE st.priority,
     metrics |-> Metrics(a)]

\* "Determine main instruction" and the return statement
Finish(a, st) ==
    [instruction |-> IF Len(st.feedback) = 0 THEN MSG_GOOD
                     ELSE st.feedback[1],
     all_feedback |-> st.feedback,
     priority |-> IF Len(st.feedback) = 0 THEN "good" ELSE st.priority,
     metrics |-> Metrics(a)]

\* the whole function of main.py
generate_guidance(a) ==
    Finish(a, HandRule(a, DepthRule(a, ArmRule(a, InitLocals))))

\* main_old_keras.py: the Replicate branch calls generate_replicate_guidance,
\* a name the module neither defines nor imports
TakesReplicateBranch(a) ==
    /\ Get(a, "analysis_source", "") = "replicate"
    /\ "replicate_analysis" \in DOMAIN a

(***************************************************************************)
(* generate_guidance: the argument dicts of the model                      *)
(***************************************************************************)
ArmAngles == {0, 145, 149, 150, 155, 159, 160, 175}
Depths == {-50, 0, 100, 179, 180, 199, 200, 210, 220, 240, 241, 300}
HandXs == {0, 34, 35, 40, 41, 50, 60, 65, 66, 100}
Qualities == {0, 80}
Phases == {0, 60}

\* the dicts analyze_cpr_image returns without error (all keys present)
MeasuredInputs ==
    [pose_detected : BOOLEAN, arm_angle : ArmAngles, depth : Depths,
     hand_x : HandXs, hand_y : {50}, quality : Qualities, phase : Phases]

\* the dicts analyze_cpr_image / analyze_cpr_image_local return on failure
ErrorInputs ==
    {[error |-> "Invalid image"],
     [error |-> "decode fault"],
     [error |-> ""],
     [error |-> "decode fault", analysis_source |-> "error"]}

\* dicts with missing keys, and dicts of the Replicate branch
PartialInputs ==
    {[pose_detected |-> TRUE],
     [depth |-> 100],
     [hand_x |-> 0, quality |-> 80],
     [analysis_source |-> "replicate", replicate_analysis |-> "detail",
      pose_detected |-> TRUE, arm_angle |-> 145, depth |-> 210,
      hand_x |-> 50, quality |-> 80],
     [analysis_source |-> "replicate", pose_detected |-> TRUE,
      arm_angle |-> 155, depth |-> 100, hand_x |-> 50, quality |-> 80]}

AnalysisInputs == MeasuredInputs \cup ErrorInputs \cup PartialInputs

(***************************************************************************)
(* generate_guidance: evaluation, one rule per step                        *)
(***************************************************************************)
Locals == [feedback |-> feedback, priority |-> priority]

\* the caller passes an analysis dict; feedback = [], priority = "normal"
GuidanceCall ==
    /\ gpc = "idle"
    /\ \E ver \in {"main", "old"}, a \in AnalysisInputs :
          /\ gver' = ver
          /\ analysis' = a
          /\ gpc' = IF ver = "old" /\ TakesReplicateBranch(a)
                    THEN "raised" ELSE "arm"
    /\ feedback' = InitLocals.feedback
    /\ priority' = InitLocals.priority
    /\ guidance' = NoDict
    /\ UNCHANGED <<cvars, svars, xvars, bvars>>

ArmStep ==
    /\ gpc = "arm"
    /\ feedback' = ArmRule(analysis, Locals).feedback
    /\ priority' = ArmRule(analysis, Locals).priority
    /\ gpc' = "depth"
    /\ UNCHANGED <<gver, analysis, guidance, cvars, svars, xvars, bvars>>

DepthStep ==
    /\ gpc = "depth"
    /\ feedback' = DepthRule(analysis, Locals).feedback
    /\ priority' = DepthRule(analysis, Locals).priority
    /\ gpc' = "hand"
    /\ UNCHANGED <<gver, analysis, guidance, cvars, svars, xvars, bvars>>

HandStep ==
    /\ gpc = "hand"
    /\ feedback' = HandRule(analysis, Locals).feedback
    /\ priority' = HandRule(analysis, Locals).priority
    /\ gpc' = "finish"
    /\ UNCHANGED <<gver, analysis, guidance, cvars, svars, xvars, bvars>>

FinishStep ==
    /\ gpc = "finish"
    /\ guidance' = Finish(analysis, Locals)
    /\ priority' = Finish(analysis, Locals).priority
    /\ gpc' = "done"
    /\ UNCHANGED <<gver, analysis, feedback, cvars, svars, xvars, bvars>>

\* the caller takes the result (or the NameError) and the frame of the
\* call is gone; the next call may start
GuidanceReturn ==
    /\ gpc \in {"done", "raised"}
    /\ gpc' = "idle"
    /\ gver' = "main"
    /\ analysis' = NoDict
    /\ feedback' = <<>>
    /\ priority' = "normal"
    /\ guidance' = NoDict
    /\ UNCHANGED <<cvars, svars, xvars, bvars>>

(***************************************************************************)
(* The backends of main_old_keras.py                                       *)
(***************************************************************************)
\* ---- images ----
\* What the collaborators (cv2, MediaPipe, the regression model) make of
\* the image bytes: decodable or not; a fault raised while processing
\* ("none", or the exception's str(), which may be empty); the landmarks
\* (elbow angles by get_angle, wrist positions); the model's 13 outputs.
NoLandmarks == [found |-> FALSE]

LandmarkSets ==
    {NoLandmarks,
     [found |-> TRUE, left_angle |-> 145, right_angle |-> 175,
      lwx |-> 40, rwx |-> 60, lwy |-> 50, rwy |-> 70],
     [found |-> TRUE, left_angle |-> 170, right_angle |-> 150,
      lwx |-> 10, rwx |-> 30, lwy |-> 40, rwy |-> 40]}

PredictionSets ==
    {<<90, 42, 55, 50, 50, 10, 90, 70, 80, 55, 50, 50, 10>>,
     <<50, 0, 50, 80, 20, 10, 90, 30, 0, 55, 50, 50, 10>>,
     <<150, -20, 50, 120, 0, 10, 90, 100, 130, 55, 50, 50, 10>>}

FaultMessages == {"none", "", "model fault"}

Images ==
    {[decodable |-> FALSE]} \cup
    [decodable : {TRUE}, fault : FaultMessages,
     landmarks : LandmarkSets, predictions : PredictionSets]

\* ml_client = httpx.AsyncClient(...) if USE_ML_SERVICE else None
ml_client == USE_ML_SERVICE

\* ---- the remote ML service ----
\* what the service does with one POST /analyze-pose
MlBodies ==
    {[detected |-> TRUE,
      metrics |-> [arm_angle |-> 155, compression_depth |-> 210,
                   hand_position_error |-> 0],
      quality_score |-> 80, feedback |-> <<"Keep arms straight">>],
     [detected |-> TRUE,
      metrics |-> [arm_angle |-> 175, compression_depth |-> 220,
                   hand_position_error |-> 50],
      quality_score |-> 90, feedback |-> <<>>],
     [detected |-> TRUE,
      metrics |-> [arm_angle |-> 175, compression_depth |-> 220,
                   hand_position_error |-> 35],
      quality_score |-> 90, feedback |-> <<>>],
     [detected |-> TRUE,
      metrics |-> [arm_angle |-> 175, compression_depth |-> 220,
                   hand_position_error |-> 66],
      quality_score |-> 90, feedback |-> <<>>],
     [detected |-> FALSE]}

MlOutcomes ==
    {[kind |-> "response", status |-> 200, body |-> b] : b \in MlBodies}
    \cup {[kind |-> "response", status |-> 500],
          [kind |-> "hang"],
          [kind |-> "exception", msg |-> ""],
          [kind |-> "exception", msg |-> "connection failed"]}

\* mutant: only the timeout is caught, any other exception of the call
\* leaves the function as an exception (no dict is returned)
analyze_with_ml_serviceTimeoutOnly(client, o) ==
    IF ~client THEN [error |-> "ML service not available"]
    ELSE IF o.kind = "hang" THEN [error |-> "ML service timeout"]
    ELSE IF o.kind = "exception" THEN [raised |-> o.msg]
    ELSE IF o.status = 200 THEN [ml_service_used |-> TRUE]
    ELSE [error |-> "ML service error"]

\* mutant: the service's hand_position_error is taken as a distance from
\* the centre of the image
analyze_with_ml_serviceFromCentre(client, o) ==
    IF ~client THEN [error |-> "ML service not available"]
    ELSE IF o.kind = "hang" THEN [error |-> "ML service timeout"]
    ELSE IF o.kind = "exception" THEN [error |-> o.msg]
    ELSE IF o.status = 200
    THEN LET ml_result == o.body
             metrics == Get(ml_result, "metrics", EmptyDict) IN
         [pose_detected |-> Get(ml_result, "detected", FALSE),
          arm_angle |-> Get(metrics, "arm_angle", 0),
          depth |-> Get(metrics, "compression_depth", 0),
          hand_x |-> HAND_CENTER + Get(metrics, "hand_position_error", 0),
          hand_y |-> 50,
          quality |-> (Get(ml_result, "quality_score", 0) * 100) \div 100,
          phase |-> 50,
          feedback |-> Get(ml_result, "feedback", <<>>),
          ml_service_used |-> TRUE]
    ELSE [error |-> "ML service error"]

\* analyze_with_ml_service on a service that behaves as outcome o.  The
\* client is built with timeout=ML_SERVICE_TIMEOUT, so a service that never
\* answers raises httpx.TimeoutException inside the try block.
analyze_with_ml_service(client, o) ==
    IF ~client THEN [error |-> "ML service not available"]
    ELSE IF o.kind = "hang" THEN [error |-> "ML service timeout"]
    ELSE IF o.kind = "exception" THEN [error |-> o.msg]
    ELSE IF o.status = 200
    THEN LET ml_result == o.body
             metrics == Get(ml_result, "metrics", EmptyDict) IN
         [pose_detected |-> Get(ml_result, "detected", FALSE),
          arm_angle |-> Get(metrics, "arm_angle", 0),
          depth |-> Get(metrics, "compression_depth", 0),
          hand_x |-> Get(metrics, "hand_position_error", HAND_CENTER),
          hand_y |-> 50,
          quality |-> (Get(ml_result, "quality_score", 0) * 100) \div 100,
          phase |-> 50,
          feedback |-> Get(ml_result, "feedback", <<>>),
          ml_service_used |-> TRUE]
    ELSE [error |-> "ML service error"]

\* ---- the local backend ----
\* the results dict before any model ran
LocalDefaults ==
    [pose_detected |-> FALSE, arm_angle |-> 0, depth |-> 0,
     hand_x |-> 50, hand_y |-> 50, quality |-> 0, phase |-> 0]

\* the MediaPipe block: pose_detected, arm_angle, hand_x, hand_y
WithPose(results, img, detector) ==
    IF detector /\ img.landmarks.found
    THEN [results EXCEPT
             !.pose_detected = TRUE,
             !.arm_angle = img.landmarks.left_angle,
             !.hand_x = (img.landmarks.lwx + img.landmarks.rwx) \div 2,
             !.hand_y = (img.landmarks.lwy + img.landmarks.rwy) \div 2]
    ELSE results

\* the CNN block: predictions[1], [3], [4], [7], [8] (0-based) as they are
WithCnn(results, img, model) ==
    IF model
    THEN LET predictions == img.predictions IN
         Put(Put([results EXCEPT !.depth = predictions[2],
                                 !.phase = predictions[8],
                                 !.quality = predictions[9]],
                 "hand_offset_x", predictions[4]),
             "hand_offset_y", predictions[5])
    ELSE results

\* analyze_cpr_image_local
analyze_cpr_image_local(img, detector, model) ==
    IF ~img.decodable THEN [error |-> "Invalid image"]
    ELSE IF img.fault # "none"
    THEN [error |-> img.fault, analysis_source |-> "error"]
    ELSE Put(WithCnn(WithPose(LocalDefaults, img, detector), img, model),
             "analysis_source", "local_models")

\* what the synchronous local call does: it returns, or, when a detector
\* or a model runs on the decoded image, that collaborator never comes
\* back (nothing in the chain bounds this call)
LocalOutcomes(img, detector, model) ==
    IF img.decodable /\ (detector \/ model)
    THEN {"return", "hang"} ELSE {"return"}

\* ---- the vision-language backend (module replicate_service) ----
\* what the vision model does with one request: a well-formed structured
\* answer, a malformed one, or no answer within the backend's timeout
ReplicateAnswers ==
    {[arm_angle_degrees |-> 145, compression_depth_estimate |-> 210,
      overall_quality_score |-> 60, feedback |-> <<"Lock your elbows">>,
      critical_issues |-> TRUE],
     [arm_angle_degrees |-> 175, compression_depth_estimate |-> 220,
      overall_quality_score |-> 90, feedback |-> <<>>,
      critical_issues |-> FALSE]}

ReplicateOutcomes ==
    {[kind |-> "answer", answer |-> a] : a \in ReplicateAnswers}
    \cup {[kind |-> "malformed"], [kind |-> "timeout"]}

\* analyze_with_replicate: AnalysisResult{error: set} on a timeout or a
\* malformed answer, never an exception
analyze_with_replicate(o) ==
    IF o.kind = "answer" THEN o.answer
    ELSE IF o.kind = "timeout" THEN [error |-> "Replicate timeout"]
    ELSE [error |-> "No structured output"]

\* convert_replicate_to_standard_format: the keys generate_guidance reads,
\* plus the detailed answer
convert_replicate_to_standard_format(r) ==
    [pose_detected |-> TRUE,
     arm_angle |-> r.arm_angle_degrees,
     depth |-> r.compression_depth_estimate,
     hand_x |-> 50, hand_y |-> 50,
     quality |-> r.overall_quality_score,
     phase |-> 50,
     replicate_analysis |-> r]

(***************************************************************************)
(* analyze_cpr_image_with_replicate: the fallback chain.  One action per   *)
(* stretch of code between two backend calls.                              *)
(***************************************************************************)
\* "Finally, fall back to local models": the call of analyze_cpr_image_local
InvokeLocal ==
    /\ invoked' = Append(invoked, "local")
    /\ \E o \in LocalOutcomes(image, pose_detector, cnn_model) : pending' = o
    /\ cpc' = "local"
    /\ chainResult' = NoDict

\* the call: "First, try Replicate"
ChainCall ==
    /\ cpc = "idle"
    /\ \E img \in Images : image' = img
    /\ invoked' = <<"replicate">>
    /\ returned' = <<>>
    /\ \E o \in ReplicateOutcomes : pending' = o
    /\ chainResult' = NoDict
    /\ cpc' = "replicate"
    /\ UNCHANGED <<USE_ML_SERVICE, pose_detector, cnn_model, gvars, svars,
                   xvars, bvars>>

\* analyze_with_replicate returned: return its converted result, or go on
\* to the ML service if configured, else to the local models
ReplicateReturn ==
    /\ cpc = "replicate"
    /\ LET replicate_result == analyze_with_replicate(pending) IN
       /\ returned' = Append(returned, replicate_result)
       /\ IF ~ErrorTruthy(replicate_result)
          THEN /\ chainResult' =
                    Put(convert_replicate_to_standard_format(replicate_result),
                        "analysis_source", "replicate")
               /\ cpc' = "done"
               /\ UNCHANGED <<invoked, pending>>
          ELSE IF USE_ML_SERVICE /\ ml_client
          THEN /\ invoked' = Append(invoked, "ml_service")
               /\ \E o \in MlOutcomes : pending' = o
               /\ cpc' = "ml_service"
               /\ chainResult' = NoDict
          ELSE InvokeLocal
    /\ UNCHANGED <<image, USE_ML_SERVICE, pose_detector, cnn_model, gvars, svars,
                   xvars, bvars>>

\* mutant: the ML service's result is never returned early, the chain
\* always goes on to the local models
MlReturnAlwaysFallsBack ==
    /\ cpc = "ml_service"
    /\ LET ml_result == analyze_with_ml_service(ml_client, pending) IN
       /\ returned' = Append(returned, ml_result)
       /\ InvokeLocal
    /\ UNCHANGED <<image, USE_ML_SERVICE, pose_detector, cnn_model, gvars, svars,
                   xvars, bvars>>

\* mutant: the ML service's result is tagged with the Replicate tag
MlReturnReplicateTag ==
    /\ cpc = "ml_service"
    /\ LET ml_result == analyze_with_ml_service(ml_client, pending) IN
       /\ returned' = Append(returned, ml_result)
       /\ IF ~ErrorTruthy(ml_result)
          THEN /\ chainResult' = Put(ml_result, "analysis_source", "replicate")
               /\ cpc' = "done"
               /\ UNCHANGED <<invoked, pending>>
          ELSE InvokeLocal
    /\ UNCHANGED <<image, USE_ML_SERVICE, pose_detector, cnn_model, gvars, svars,
                   xvars, bvars>>

\* analyze_with_ml_service returned: return its result, or go on to the
\* local models
MlReturn ==
    /\ cpc = "ml_service"
    /\ LET ml_result == analyze_with_ml_service(ml_client, pending) IN
       /\ returned' = Append(returned, ml_result)
       /\ IF ~ErrorTruthy(ml_result)
          THEN /\ chainResult' = Put(ml_result, "analysis_source", "ml_service")
               /\ cpc' = "done"
               /\ UNCHANGED <<invoked, pending>>
          ELSE InvokeLocal
    /\ UNCHANGED <<image, USE_ML_SERVICE, pose_detector, cnn_model, gvars, svars,
                   xvars, bvars>>

\* mutant: when the local models fail too, the chain reports the first
\* failure (Replicate's) instead of the last
LocalReturnFirstFailure ==
    /\ cpc = "local"
    /\ pending = "return"
    /\ LET local_result ==
               analyze_cpr_image_local(image, pose_detector, cnn_model) IN
       /\ returned' = Append(returned, local_result)
       /\ chainResult' = IF ErrorTruthy(local_result) THEN returned[1]
                         ELSE local_result
    /\ cpc' = "done"
    /\ UNCHANGED <<image, pending, invoked, USE_ML_SERVICE, pose_detector,
                   cnn_model, gvars, svars, xvars, bvars>>

\* analyze_cpr_image_local returned: its result is the chain's result
LocalReturn ==
    /\ cpc = "local"
    /\ pending = "return"
    /\ LET local_result ==
               analyze_cpr_image_local(image, pose_detector, cnn_model) IN
       /\ returned' = Append(returned, local_result)
       /\ chainResult' = local_result
    /\ cpc' = "done"
    /\ UNCHANGED <<image, pending, invoked, USE_ML_SERVICE, pose_detector,
                   cnn_model, gvars, svars, xvars, bvars>>

\* the caller has the result and the frame of the call is gone; the next
\* call may start
ChainReturn ==
    /\ cpc = "done"
    /\ cpc' = "idle"
    /\ image' = [decodable |-> FALSE]
    /\ pending' = "return"
    /\ invoked' = <<>>
    /\ returned' = <<>>
    /\ chainResult' = NoDict
    /\ UNCHANGED <<USE_ML_SERVICE, pose_detector, cnn_model, gvars, svars,
                   xvars, bvars>>

(***************************************************************************)
(* main.py: the photo store (POST /upload-photo), the sessions derived     *)
(* from it (GET /sessions) and the session start / end endpoints.          *)
(***************************************************************************)
\* Python None where the other values are strings (user_id, session_id)
None == "None"

\* Python None where the other values are timestamps
NoTime == -1

\* no request served yet
NoRequest == [op |-> "none"]

\* ---- analyze_cpr_image of main.py ----
\* mutant: with no detector and no model the function reports an error
analyze_cpr_imageNeedsModel(img, detector, model) ==
    IF ~img.decodable THEN [error |-> "Invalid image"]
    ELSE IF img.fault # "none" THEN [error |-> img.fault]
    ELSE IF ~detector /\ ~model THEN [error |-> "No model available"]
    ELSE WithCnn(WithPose(LocalDefaults, img, detector), img, model)

\* the same blocks as analyze_cpr_image_local, without a source tag; an
\* exception anywhere gives {"error": str(e)}
analyze_cpr_image(img, detector, model) ==
    IF ~img.decodable THEN [error |-> "Invalid image"]
    ELSE IF img.fault # "none" THEN [error |-> img.fault]
    ELSE WithCnn(WithPose(LocalDefaults, img, detector), img, model)

\* ---- POST /upload-photo ----
MaxRequests == 3
MaxClock == 1

\* the user_id and session_id form fields (None: field not sent)
Users == {"u1", None}
SessionIds == {"s1", "s2"}
SessionArgs == SessionIds \cup {None}

\* the uploaded file: its content type and its bytes
UploadFiles ==
    {[is_image |-> FALSE, img |-> [decodable |-> FALSE]],
     [is_image |-> TRUE, img |-> [decodable |-> FALSE]],
     [is_image |-> TRUE,
      img |-> [decodable |-> TRUE, fault |-> "none",
               landmarks |-> [found |-> TRUE, left_angle |-> 145,
                              right_angle |-> 175, lwx |-> 40, rwx |-> 60,
                              lwy |-> 50, rwy |-> 70],
               predictions |->
                   <<90, 42, 55, 50, 50, 10, 90, 70, 80, 55, 50, 50, 10>>]]}

\* the mentra_analysis / mentra_guidance form fields: not sent, or a JSON
\* text (parses: json.loads succeeds, data: the dict it gives) and a
\* guidance string
NoMentra == [sent |-> FALSE]
MentraForms ==
    {NoMentra,
     [sent |-> TRUE, parses |-> TRUE, guidance |-> "Good position",
      data |-> [position |-> "good", confidence |-> 80]],
     [sent |-> TRUE, parses |-> TRUE, guidance |-> "Move to centre",
      data |-> [position |-> "center", confidence |-> 90]],
     [sent |-> TRUE, parses |-> TRUE, guidance |-> "No CPR seen",
      data |-> [position |-> "no_cpr"]],
     [sent |-> TRUE, parses |-> FALSE, guidance |-> "Good position"]}

\* the analysis and guidance dicts built from the Mentra form fields
MentraAnalysis(mentra_data) ==
    [position |-> Get(mentra_data, "position", "unknown"),
     confidence |-> Get(mentra_data, "confidence", 0),
     source |-> "mentra_glasses"]

MentraGuidance(mentra_data, mentra_guidance) ==
    [instruction |-> mentra_guidance,
     all_feedback |-> <<mentra_guidance>>,
     priority |-> IF Get(mentra_data, "position", None) = "good"
                  THEN "good" ELSE "warning",
     metrics |-> [quality_percent |-> Get(mentra_data, "confidence", 0)]]

\* cpr_{user_id or 'unknown'}_{%Y%m%d_%H%M%S}_q{quality:.0f}: the three
\* parts of the file name (quality * 100 is the percent of the grid)
FileName(user_id, second, a) ==
    [user |-> IF user_id = None THEN "unknown" ELSE user_id,
     second |-> second,
     q |-> IF Get(a, "source", None) = "mentra_glasses"
           THEN Get(a, "confidence", 0)
           ELSE Get(a, "quality", 0)]

\* "Save photo with analysis results": the .jpg and its _analysis.json are
\* written under the file name, replacing what was there
Save(store, clock, user_id, session_id, a, g) ==
    [status |-> 200,
     analysis |-> g,
     stored |-> a,
     files |-> Put(store, FileName(user_id, clock, a),
                   [analysis |-> a, guidance |-> g, user_id |-> user_id,
                    session_id |-> session_id, timestamp |-> clock])]

\* the whole handler; every exception, the 400 of a non-image included, is
\* caught and answered with status 500
upload_photo(store, clock, file, user_id, session_id, mentra, det, mdl) ==
    IF ~file.is_image THEN [status |-> 500, files |-> store]
    ELSE IF mentra.sent
    THEN IF ~mentra.parses THEN [status |-> 500, files |-> store]
         ELSE Save(store, clock, user_id, session_id,
                   MentraAnalysis(mentra.data),
                   MentraGuidance(mentra.data, mentra.guidance))
    ELSE LET a == analyze_cpr_image(file.img, det, mdl) IN
         Save(store, clock, user_id, session_id,
              Put(a, "source", "backend"), generate_guidance(a))

\* ---- GET /sessions ----
\* a Python float that is a quotient of grid values, kept as a reduced
\* fraction so that the running mean is computed exactly
RECURSIVE GCD(_, _)
GCD(x, y) == IF y = 0 THEN x ELSE GCD(y, x % y)

Frac(n, d) ==
    LET g == GCD(Abs(n), d) IN
    IF n = 0 THEN [num |-> 0, den |-> 1]
    ELSE [num |-> n \div g, den |-> d \div g]

\* the value the defaultdict gives a session id it has not seen
DefaultSession ==
    [session_id |-> None, user_id |-> None,
     start_time |-> NoTime, end_time |-> NoTime,
     photos |-> <<>>, total_photos |-> 0,
     good_positions |-> 0, poor_positions |-> 0, no_cpr_detected |-> 0,
     average_confidence |-> Frac(0, 1)]

PoorPositions == {"high", "low", "left", "right", "uncertain", "unknown"}

\* "Initialize session data"
InitSession(entry, session_id, user_id, timestamp) ==
    IF entry.session_id = None
    THEN [entry EXCEPT !.session_id = session_id, !.user_id = user_id,
                       !.start_time = timestamp, !.end_time = timestamp]
    ELSE entry

\* "Update timing"
UpdateTiming(entry, timestamp) ==
    IF timestamp # NoTime
    THEN [entry EXCEPT
             !.start_time = IF @ = NoTime \/ timestamp < @
                            THEN timestamp ELSE @,
             !.end_time = IF @ = NoTime \/ timestamp > @
                          THEN timestamp ELSE @]
    ELSE entry

\* "Count position types": a position outside the three branches is not
\* counted at all
CountPosition(entry, position) ==
    IF position = "good"
    THEN [entry EXCEPT !.good_positions = @ + 1]
    ELSE IF position \in PoorPositions
    THEN [entry EXCEPT !.poor_positions = @ + 1]
    ELSE IF position = "no_cpr"
    THEN [entry EXCEPT !.no_cpr_detected = @ + 1]
    ELSE entry

\* "Update average confidence"
UpdateAverage(entry, confidence) ==
    LET current_avg == entry.average_confidence
        total_photos == entry.total_photos IN
    [entry EXCEPT !.average_confidence =
        Frac(current_avg.num * (total_photos - 1)
                 + confidence * current_avg.den,
             current_avg.den * total_photos)]

\* the body of the loop for one _analysis.json (its .jpg always exists:
\* upload_photo writes both); acc is sessions_dict with its key order
ProcessFile(acc, name, analysis_data) ==
    LET session_id == Get(analysis_data, "session_id", "unknown")
        user_id == Get(analysis_data, "user_id", "unknown")
        timestamp == Get(analysis_data, "timestamp", NoTime)
        a == Get(analysis_data, "analysis", EmptyDict)
        photo_data == [filename |-> name, timestamp |-> timestamp,
                       analysis |-> a,
                       guidance |-> Get(analysis_data, "guidance", "")]
        seen == session_id \in DOMAIN acc.dict
        e0 == IF seen THEN acc.dict[session_id] ELSE DefaultSession
        e1 == InitSession(e0, session_id, user_id, timestamp)
        e2 == [e1 EXCEPT !.photos = Append(@, photo_data),
                         !.total_photos = @ + 1]
        e3 == UpdateTiming(e2, timestamp)
        e4 == CountPosition(e3, Get(a, "position", "uncertain"))
        e5 == UpdateAverage(e4, Get(a, "confidence", 0)) IN
    [dict |-> Put(acc.dict, session_id, e5),
     keys |-> IF seen THEN acc.keys ELSE Append(acc.keys, session_id)]

\* the loop over json_files, in the order glob gave them
RECURSIVE ProcessFiles(_, _)
ProcessFiles(store, order) ==
    IF order = <<>> THEN [dict |-> <<>>, keys |-> <<>>]
    ELSE LET name == order[Len(order)] IN
         ProcessFile(ProcessFiles(store, SubSeq(order, 1, Len(order) - 1)),
                     name, store[name])

\* list.sort(key = time or "", reverse = True): stable, newest first
RECURSIVE InsertByTime(_, _, _)
InsertByTime(sorted, x, key) ==
    IF sorted = <<>> THEN <<x>>
    ELSE IF sorted[Len(sorted)][key] >= x[key] THEN Append(sorted, x)
    ELSE Append(InsertByTime(SubSeq(sorted, 1, Len(sorted) - 1), x, key),
                sorted[Len(sorted)])

RECURSIVE SortByTime(_, _)
SortByTime(list, key) ==
    IF list = <<>> THEN <<>>
    ELSE InsertByTime(SortByTime(SubSeq(list, 1, Len(list) - 1), key),
                      list[Len(list)], key)

\* the orders in which glob can list the files
GlobOrders(store) ==
    {order \in [1..Cardinality(DOMAIN store) -> DOMAIN store] :
        \A i, j \in DOMAIN order : i # j => order[i] # order[j]}

\* the whole handler: the response for one order of the files
get_sessions(store, order) ==
    LET acc == ProcessFiles(store, order)
        listed == [i \in 1..Len(acc.keys) |-> acc.dict[acc.keys[i]]]
        sorted == SortByTime(listed, "start_time") IN
    [success |-> TRUE,
     sessions |-> [i \in 1..Len(sorted) |->
                      [sorted[i] EXCEPT
                          !.photos = SortByTime(@, "timestamp")]],
     count |-> Len(sorted)]

\* ---- the session start / end endpoints (called by test_system.py) ----
\* POST /session/start: a new active session under an identifier that no
\* earlier call returned
start_session(tbl, session_id, user_id) ==
    Put(tbl, session_id, [user_id |-> user_id, state |-> "active"])

\* POST /session/{id}/end: the session becomes ended; ending an ended
\* session changes nothing
end_session(tbl, session_id) ==
    [tbl EXCEPT ![session_id].state = "ended"]

\* ---- the requests, one action per handler ----
\* the request did not reach analyze_cpr_image
NoImage == [decodable |-> FALSE, absent |-> TRUE]

NoResponse == [success |-> FALSE]

\* time passes between two requests
Tick ==
    /\ now < MaxClock
    /\ now' = now + 1
    /\ UNCHANGED <<files, table, nreq, last, response, gvars, cvars,
                   xvars, bvars>>

UploadPhoto ==
    /\ nreq < MaxRequests
    /\ \E file \in UploadFiles, user_id \in Users,
          session_id \in SessionArgs, mentra \in MentraForms :
          LET r == upload_photo(files, now, file, user_id, session_id,
                                mentra, pose_detector, cnn_model) IN
          /\ files' = r.files
          /\ last' = [op |-> "upload", user_id |-> user_id,
                      session_id |-> session_id, status |-> r.status,
                      analysed |-> IF file.is_image /\ ~mentra.sent
                                   THEN file.img ELSE NoImage,
                      analysis |-> Get(r, "stored", NoDict)]
    /\ nreq' = nreq + 1
    /\ response' = NoResponse
    /\ UNCHANGED <<now, table, gvars, cvars, xvars, bvars>>

\* POST /analyze-hands: nothing is stored; a result with the error key is
\* answered with status 500, a non-image with status 400
AnalyzeFiles ==
    {[is_image |-> FALSE, img |-> [decodable |-> FALSE]]} \cup
    [is_image : {TRUE}, img : Images]

analyze_hands(file, clock, detector, model) ==
    IF ~file.is_image THEN [status |-> 400, analysis |-> NoDict]
    ELSE LET a == analyze_cpr_image(file.img, detector, model)
             g == generate_guidance(a) IN
         IF HasError(a) THEN [status |-> 500, analysis |-> a]
         ELSE [status |-> 200,
               analysis |-> a,
               response |->
                   [success |-> TRUE,
                    analysis |-> [position |-> g.priority,
                                  confidence |-> Get(a, "quality", 0)],
                    guidance |-> g.instruction,
                    detailed_feedback |-> g.all_feedback,
                    metrics |-> g.metrics,
                    timestamp |-> clock]]

AnalyzeHands ==
    /\ \E file \in AnalyzeFiles :
          LET r == analyze_hands(file, now, pose_detector, cnn_model) IN
          last' = [op |-> "analyze", status |-> r.status,
                   analysed |-> IF file.is_image THEN file.img ELSE NoImage,
                   analysis |-> r.analysis,
                   response |-> Get(r, "response", NoDict)]
    /\ UNCHANGED <<now, files, table, nreq, response, gvars, cvars,
                   xvars, bvars>>

GetSessions ==
    /\ nreq < MaxRequests
    /\ \E order \in GlobOrders(files) :
          response' = get_sessions(files, order)
    /\ last' = [op |-> "sessions", status |-> 200]
    /\ nreq' = nreq + 1
    /\ UNCHANGED <<now, files, table, gvars, cvars, xvars, bvars>>

\* mutant: the start call may hand out an identifier again
StartSessionReusesId ==
    /\ nreq < MaxRequests
    /\ \E user_id \in Users, session_id \in SessionIds :
          /\ table' = start_session(table, session_id, user_id)
          /\ last' = [op |-> "start", user_id |-> user_id,
                      session_id |-> session_id, status |-> 200]
    /\ nreq' = nreq + 1
    /\ response' = NoResponse
    /\ UNCHANGED <<now, files, gvars, cvars, xvars, bvars>>

StartSession ==
    /\ nreq < MaxRequests
    /\ \E user_id \in Users, session_id \in SessionIds \ DOMAIN table :
          /\ table' = start_session(table, session_id, user_id)
          /\ last' = [op |-> "start", user_id |-> user_id,
                      session_id |-> session_id, status |-> 200]
    /\ nreq' = nreq + 1
    /\ response' = NoResponse
    /\ UNCHANGED <<now, files, gvars, cvars, xvars, bvars>>

EndSession ==
    /\ nreq < MaxRequests
    /\ \E session_id \in SessionIds :
          IF session_id \in DOMAIN table
          THEN /\ table' = end_session(table, session_id)
               /\ last' = [op |-> "end", session_id |-> session_id,
                           status |-> 200]
          ELSE /\ table' = table
               /\ last' = [op |-> "end", session_id |-> session_id,
                           status |-> 404]
    /\ nreq' = nreq + 1
    /\ response' = NoResponse
    /\ UNCHANGED <<now, files, gvars, cvars, xvars, bvars>>

(***************************************************************************)
(* extract_frames.py: extract_frames_from_video                            *)
(***************************************************************************)
MaxFrames == 7
MaxInterval == 4

\* no value returned yet
NoCount == -1

\* cv2.VideoCapture(video_path): opened or not, the number of frames
\* cap.read() delivers before it reports failure, and the frames read
Videos ==
    {[opened |-> FALSE, frames |-> 0, pos |-> 0]} \cup
    [opened : {TRUE}, frames : 0..MaxFrames, pos : {0}]

\* mutant: the frame before each multiple of the interval is saved
SaveDueBefore(count, interval) ==
    (count + 1) % interval = 0

\* "if frame_count % frame_interval == 0"
SaveDue(count, interval) ==
    count % interval = 0

\* the call up to the loop: the capture is created; a video that cannot be
\* opened returns 0 at once
ExtractCall ==
    /\ xpc = "idle"
    /\ \E video \in Videos, interval \in 1..MaxInterval :
          /\ cap' = video
          /\ frame_interval' = interval
          /\ IF ~video.opened
             THEN xpc' = "done" /\ extracted' = 0
             ELSE xpc' = "loop" /\ extracted' = NoCount
    /\ frame_count' = 0
    /\ saved_count' = 0
    /\ written' = {}
    /\ UNCHANGED <<gvars, cvars, svars, bvars>>

\* one iteration of "while True": cap.read(), break when it fails, else
\* cv2.imwrite of frame_<frame_count> when due, then frame_count += 1;
\* after the break the function returns saved_count
ReadFrame ==
    /\ xpc = "loop"
    /\ LET ret == cap.pos < cap.frames IN
       IF ~ret
       THEN /\ xpc' = "done"
            /\ extracted' = saved_count
            /\ UNCHANGED <<cap, frame_count, saved_count, written>>
       ELSE /\ cap' = [cap EXCEPT !.pos = @ + 1]
            /\ IF SaveDue(frame_count, frame_interval)
               THEN /\ written' = written \cup {frame_count}
                    /\ saved_count' = saved_count + 1
               ELSE UNCHANGED <<written, saved_count>>
            /\ frame_count' = frame_count + 1
            /\ UNCHANGED <<xpc, extracted>>
    /\ UNCHANGED <<frame_interval, gvars, cvars, svars, bvars>>

\* the caller has the count; the next call may start
ExtractReturn ==
    /\ xpc = "done"
    /\ xpc' = "idle"
    /\ cap' = [opened |-> FALSE, frames |-> 0, pos |-> 0]
    /\ frame_interval' = 1
    /\ frame_count' = 0
    /\ saved_count' = 0
    /\ written' = {}
    /\ extracted' = NoCount
    /\ UNCHANGED <<gvars, cvars, svars, bvars>>

(***************************************************************************)
(* main.py: the model loading of the module body                           *)
(***************************************************************************)
\* os.path.exists of MODEL_TFLITE_PATH and of MODEL_KERAS_PATH
Disks == [tflite : BOOLEAN, keras : BOOLEAN]

\* what the collaborators do when called: the loader of the model file
\* raises or not, mp_pose.Pose raises or not
LoadOutcomes == [load_raises : BOOLEAN, pose_raises : BOOLEAN]

\* nothing recorded about the start-up block
NoBoot == [loader |-> "none", raised |-> "none"]

\* mutant: MediaPipe is initialised whether or not the loader raised
LoadModelsPoseAnyway(d, o) ==
    LET loader == IF d.tflite THEN "tflite"
                  ELSE IF d.keras THEN "keras" ELSE "none"
        load_raised == loader # "none" /\ o.load_raises IN
    [loader |-> loader,
     cnn_model |-> loader # "none" /\ ~load_raised,
     pose_detector |-> ~o.pose_raises,
     raised |-> IF load_raised THEN "load"
                ELSE IF o.pose_raises THEN "pose" ELSE "none"]

\* the try block: if / elif / else over the model files, then MediaPipe;
\* an exception leaves the rest of the block undone
LoadModels(d, o) ==
    LET loader == IF d.tflite THEN "tflite"
                  ELSE IF d.keras THEN "keras" ELSE "none"
        load_raised == loader # "none" /\ o.load_raises IN
    [loader |-> loader,
     cnn_model |-> loader # "none" /\ ~load_raised,
     pose_detector |-> ~load_raised /\ ~o.pose_raises,
     raised |-> IF load_raised THEN "load"
                ELSE IF o.pose_raises THEN "pose" ELSE "none"]

\* the module body runs once, at import
Startup ==
    /\ bpc = "import"
    /\ \E o \in LoadOutcomes :
          LET b == LoadModels(disk, o) IN
          /\ cnn_model' = b.cnn_model
          /\ pose_detector' = b.pose_detector
          /\ boot' = [loader |-> b.loader, raised |-> b.raised]
    /\ bpc' = "started"
    /\ UNCHANGED <<disk, USE_ML_SERVICE, cpc, image, pending, invoked,
                   returned, chainResult, gvars, svars, xvars>>

(***************************************************************************)
(* Specifications                                                          *)
(***************************************************************************)
GuidanceIdle ==
    /\ gver = "main"
    /\ gpc = "idle"
    /\ analysis = NoDict
    /\ feedback = <<>>
    /\ priority = "normal"
    /\ guidance = NoDict

ChainIdle ==
    /\ cpc = "idle"
    /\ image = [decodable |-> FALSE]
    /\ pending = "return"
    /\ invoked = <<>>
    /\ returned = <<>>
    /\ chainResult = NoDict

\* an empty photo directory, no session started, no request served
SessionIdle ==
    /\ now = 0
    /\ files = <<>>
    /\ table = <<>>
    /\ nreq = 0
    /\ last = NoRequest
    /\ response = NoResponse

ExtractIdle ==
    /\ xpc = "idle"
    /\ cap = [opened |-> FALSE, frames |-> 0, pos |-> 0]
    /\ frame_interval = 1
    /\ frame_count = 0
    /\ saved_count = 0
    /\ written = {}
    /\ extracted = NoCount

\* the module body has run; what it found on disk is not recorded
Started ==
    /\ bpc = "started"
    /\ disk = [tflite |-> FALSE, keras |-> FALSE]
    /\ boot = NoBoot

\* nothing but the start-up or the extraction is in progress
Idle == GuidanceIdle /\ ChainIdle /\ SessionIdle /\ ExtractIdle

\* the module-level state after import: any configuration
Configured ==
    /\ USE_ML_SERVICE \in BOOLEAN
    /\ pose_detector \in BOOLEAN
    /\ cnn_model \in BOOLEAN

Init == Idle /\ Started /\ Configured

GuidanceNext ==
    \/ GuidanceCall
    \/ ArmStep
    \/ DepthStep
    \/ HandStep
    \/ FinishStep
    \/ GuidanceReturn

ChainNext ==
    \/ ChainCall
    \/ ReplicateReturn
    \/ MlReturn
    \/ LocalReturn
    \/ ChainReturn

\* the module-level state with the defaults of the environment
\* (USE_ML_SERVICE defaults to "true") and both models loaded
DefaultConfigured ==
    /\ USE_ML_SERVICE = TRUE
    /\ pose_detector = TRUE
    /\ cnn_model = TRUE

GuidanceInit ==
    Idle /\ Started /\ DefaultConfigured

\* GET /session/{id}: a read-only snapshot of the session, 404 for an
\* identifier that no start call returned
get_session(tbl, session_id) ==
    IF session_id \in DOMAIN tbl
    THEN [status |-> 200,
          session |-> [session_id |-> session_id,
                       user_id |-> tbl[session_id].user_id,
                       state |-> tbl[session_id].state]]
    ELSE [status |-> 404, session |-> NoDict]

GetSession ==
    /\ \E session_id \in SessionIds :
          LET r == get_session(table, session_id) IN
          last' = [op |-> "get", session_id |-> session_id,
                   status |-> r.status, session |-> r.session]
    /\ UNCHANGED <<now, files, table, nreq, response, gvars, cvars,
                   xvars, bvars>>

\* the session calls of test_system.py together with the frame upload
LifecycleNext ==
    \/ StartSession
    \/ GetSession
    \/ UploadPhoto
    \/ EndSession

LifecycleInit ==
    Idle /\ Started /\ DefaultConfigured

SessionNext ==
    \/ Tick
    \/ UploadPhoto
    \/ GetSessions
    \/ StartSession
    \/ EndSession

\* main.py after start-up: the detector and the model both loaded, or
\* neither
SessionInit ==
    /\ Idle /\ Started
    /\ USE_ML_SERVICE = FALSE
    /\ pose_detector \in BOOLEAN
    /\ cnn_model = pose_detector

\* main.py after start-up: the detector and the model each loaded or not
AnalyzeInit ==
    /\ Idle /\ Started
    /\ USE_ML_SERVICE = FALSE
    /\ pose_detector \in BOOLEAN
    /\ cnn_model \in BOOLEAN

AnalyzeNext == AnalyzeHands \/ Tick

ExtractInit ==
    /\ Idle
    /\ Started /\ DefaultConfigured

ExtractNext ==
    \/ ExtractCall
    \/ ReadFrame
    \/ ExtractReturn

\* before the module body has run: both globals None, any model files
StartupInit ==
    /\ Idle
    /\ bpc = "import"
    /\ disk \in Disks
    /\ boot = NoBoot
    /\ USE_ML_SERVICE = FALSE
    /\ pose_detector = FALSE
    /\ cnn_model = FALSE

\* requests are served once the module is imported
AnalyzeRequest ==
    /\ bpc = "started"
    /\ AnalyzeHands

StartupNext ==
    \/ Startup
    \/ AnalyzeRequest

\* generate_guidance alone, on every argument of AnalysisInputs
GuidanceSpec == GuidanceInit /\ [][GuidanceNext]_vars

\* the fallback chain alone, on every image and backend behaviour
ChainSpec == Init /\ [][ChainNext]_vars

\* the analysis endpoint of main.py alone, on every image
AnalyzeSpec == AnalyzeInit /\ [][AnalyzeNext]_vars

\* the frame extraction; the loop goes on while it can
ExtractSpec == ExtractInit /\ [][ExtractNext]_vars /\ WF_vars(ReadFrame)

\* the module body of main.py, then the analysis endpoint
StartupSpec == StartupInit /\ [][StartupNext]_vars

\* the session lifecycle: start, get, upload, end
LifecycleSpec == LifecycleInit /\ [][LifecycleNext]_vars

\* the photo store and the session endpoints of main.py
SessionSpec == SessionInit /\ [][SessionNext]_vars

(***************************************************************************)
(* Properties of generate_guidance (checked under GuidanceSpec)            *)
(***************************************************************************)
\* good/none < warning < critical
Rank(p) == IF p = "critical" THEN 2 ELSE IF p = "warning" THEN 1 ELSE 0

Max2(x, y) == IF x >= y THEN x ELSE y

\* the severity each rule is stated to have on an argument (0: not fired)
StatedArmSeverity(a) ==
    IF ~Get(a, "pose_detected", FALSE) THEN 0
    ELSE IF Get(a, "arm_angle", 0) < 150 THEN 2
    ELSE IF Get(a, "arm_angle", 0) < 160 THEN 1
    ELSE 0

StatedDepthSeverity(a) ==
    LET d == Get(a, "depth", 0) IN
    IF d <= 0 THEN 0
    ELSE IF d < 180 THEN 2
    ELSE IF d < 200 THEN 1
    ELSE IF d > 240 THEN 1
    ELSE 0

StatedHandSeverity(a) ==
    IF Abs(Get(a, "hand_x", 50) - 50) > 15 THEN 1 ELSE 0

StatedFinalPriority(a) ==
    LET m == Max2(StatedArmSeverity(a),
                  Max2(StatedDepthSeverity(a), StatedHandSeverity(a))) IN
    IF m = 2 THEN "critical" ELSE IF m = 1 THEN "warning" ELSE "good"

\* C1: for an analysis whose error field is set, generate_guidance returns
\* priority critical, instruction "analysis unavailable" and empty metrics
\* (so never priority good).
C1_ErrorGivesUnavailable ==
    (gpc = "done" /\ HasError(analysis)) =>
        /\ guidance.priority = "critical"
        /\ guidance.instruction = "analysis unavailable"
        /\ DOMAIN guidance.metrics = {}

C8_PriorityOnlyEscalates ==
    [][/\ gpc \in {"arm", "depth", "hand", "finish"} =>
             Rank(priority') >= Rank(priority)
       /\ gpc = "finish" =>
             guidance'.priority = StatedFinalPriority(analysis)]_vars

\* C8 witness: a critical arm message followed by a warning-level depth
\* message and the centering message, priority still critical at the return
C8_Witness ==
    /\ gpc = "done"
    /\ guidance.all_feedback = <<MSG_ARM_CRITICAL, MSG_DEPTH_HIGH, MSG_HAND>>
    /\ guidance.priority = "critical"

\* C9: the arm rule fires only when a pose was detected: below 150
\* "STRAIGHTEN YOUR ARMS" (critical), in [150,160) "Arms need to be
\* straighter" (warning), from 160 on nothing; scenario A (145 degrees,
\* depth 2.1, centered hands) gives exactly ["STRAIGHTEN YOUR ARMS"],
\* critical.
C9_ArmRule ==
    LET pose == Get(analysis, "pose_detected", FALSE)
        angle == Get(analysis, "arm_angle", 0) IN
    /\ gpc = "depth" =>
          /\ (pose /\ angle < 150) =>
                 feedback = <<"STRAIGHTEN YOUR ARMS">> /\ priority = "critical"
          /\ (pose /\ angle >= 150 /\ angle < 160) =>
                 feedback = <<"Arms need to be straighter">>
                 /\ priority = "warning"
          /\ (pose /\ angle >= 160) => feedback = <<>> /\ priority = "normal"
          /\ ~pose => feedback = <<>> /\ priority = "normal"
    /\ (gpc = "done" /\ pose /\ angle = 145
          /\ Get(analysis, "depth", 0) = 210
          /\ Get(analysis, "hand_x", 50) = 50) =>
          /\ guidance.all_feedback = <<"STRAIGHTEN YOUR ARMS">>
          /\ guidance.priority = "critical"
          /\ guidance.instruction = "STRAIGHTEN YOUR ARMS"

\* C9 witness: scenario A has been evaluated
C9_Witness ==
    /\ gpc = "done"
    /\ "error" \notin DOMAIN analysis
    /\ Get(analysis, "pose_detected", FALSE)
    /\ Get(analysis, "arm_angle", 0) = 145
    /\ Get(analysis, "depth", 0) = 210
    /\ Get(analysis, "hand_x", 0) = 50
    /\ guidance.instruction = "STRAIGHTEN YOUR ARMS"

\* C10: the depth rule fires only when depth > 0: below 1.8 the
\* press-deeper message (critical), in [1.8,2.0) "Press a bit deeper"
\* (warning), above 2.4 the too-deep message (warning), in [2.0,2.4]
\* nothing.  A warning raises the priority to warning unless it is
\* already higher.
C10_DepthRule ==
    [][gpc = "depth" =>
        LET d == Get(analysis, "depth", 0)
            raised == IF Rank(priority) >= 1 THEN priority ELSE "warning" IN
        /\ (d > 0 /\ d < 180) =>
               /\ feedback' = Append(feedback, MSG_DEPTH_CRITICAL)
               /\ priority' = "critical"
        /\ (d >= 180 /\ d < 200) =>
               /\ feedback' = Append(feedback, "Press a bit deeper")
               /\ priority' = raised
        /\ d > 240 =>
               /\ feedback' = Append(feedback, MSG_DEPTH_HIGH)
               /\ priority' = raised
        /\ (d <= 0 \/ (d >= 200 /\ d <= 240)) =>
               /\ feedback' = feedback
               /\ priority' = priority]_vars

\* C10 witness: depth exactly 2.4 went through the depth rule after a
\* warning arm message and added nothing
C10_Witness ==
    /\ gpc = "hand"
    /\ Get(analysis, "depth", 0) = 240
    /\ feedback = <<MSG_ARM_WARNING>>
    /\ priority = "warning"

\* C11: the hand-centering message is in the feedback exactly when the
\* hands are more than 0.15 off centre, it is the last message and makes
\* the priority at least a warning (exactly a warning when it is alone);
\* the metric hands_centered is true exactly when the offset is below
\* 0.10; offsets from 0.10 to 0.15 give hands_centered false and no hand
\* message; arm 175, depth 2.2, hand_x 0.5 gives empty feedback, priority
\* good and the good-technique instruction
C11_HandCentering ==
    gpc = "done" =>
        LET off == Abs(Get(analysis, "hand_x", 50) - 50)
            fb == guidance.all_feedback
            hasMsg == \E i \in 1..Len(fb) : fb[i] = MSG_HAND IN
        /\ hasMsg <=> off > 15
        /\ hasMsg => /\ fb[Len(fb)] = MSG_HAND
                      /\ guidance.priority \in {"warning", "critical"}
        /\ (hasMsg /\ Len(fb) = 1) => guidance.priority = "warning"
        /\ guidance.metrics.hands_centered <=> off < 10
        /\ (off >= 10 /\ off <= 15) =>
               /\ ~guidance.metrics.hands_centered
               /\ ~hasMsg
        /\ (/\ Get(analysis, "arm_angle", 0) = 175
            /\ Get(analysis, "depth", 0) = 220
            /\ Get(analysis, "hand_x", 50) = 50) =>
               /\ fb = <<>>
               /\ guidance.priority = "good"
               /\ guidance.instruction = "Good CPR technique! Keep going!"

\* C11 witness: hands exactly 0.15 off centre with a good arm and depth:
\* no message, not centred, priority good
C11_Witness ==
    /\ gpc = "done"
    /\ Get(analysis, "hand_x", 50) = 35
    /\ guidance.all_feedback = <<>>
    /\ guidance.priority = "good"
    /\ ~guidance.metrics.hands_centered

\* the rule a message belongs to: 1 arm, 2 depth, 3 hand position, 0 none
RuleOf(msg) ==
    IF msg \in {MSG_ARM_CRITICAL, MSG_ARM_WARNING} THEN 1
    ELSE IF msg \in {MSG_DEPTH_CRITICAL, MSG_DEPTH_LOW, MSG_DEPTH_HIGH} THEN 2
    ELSE IF msg = MSG_HAND THEN 3
    ELSE 0

\* C12: the feedback holds at most one message per rule, in the order arm,
\* depth, hand position (so at most three), and the instruction is the
\* message of the first rule that fired, whatever the severities
C12_FeedbackOrder ==
    gpc = "done" =>
        LET fb == guidance.all_feedback
            arm == Get(analysis, "arm_angle", 0)
            d == Get(analysis, "depth", 0)
            off == Abs(Get(analysis, "hand_x", 50) - 50)
            armFired == Get(analysis, "pose_detected", FALSE) /\ arm < 160
            depthFired == d > 0 /\ (d < 200 \/ d > 240)
            handFired == off > 15 IN
        /\ Len(fb) <= 3
        /\ \A i \in 1..Len(fb) : RuleOf(fb[i]) # 0
        /\ \A i, j \in 1..Len(fb) : i < j => RuleOf(fb[i]) < RuleOf(fb[j])
        /\ Len(fb) > 0 => guidance.instruction = fb[1]
        /\ armFired => RuleOf(guidance.instruction) = 1
        /\ (~armFired /\ depthFired) => RuleOf(guidance.instruction) = 2
        /\ (~armFired /\ ~depthFired /\ handFired) =>
               guidance.instruction = MSG_HAND

\* C12 witness: all three rules fired, a warning arm message is the
\* instruction although the depth message behind it is critical
C12_Witness ==
    /\ gpc = "done"
    /\ guidance.all_feedback =
           <<MSG_ARM_WARNING, MSG_DEPTH_CRITICAL, MSG_HAND>>
    /\ guidance.instruction = MSG_ARM_WARNING
    /\ guidance.priority = "critical"

(***************************************************************************)
(* Properties of the fallback chain (checked under ChainSpec)              *)
(***************************************************************************)
\* vision-language (1), remote service (2), local (3)
BackendRank(b) ==
    IF b = "replicate" THEN 1 ELSE IF b = "ml_service" THEN 2 ELSE 3

\* the tag that names a backend
SourceTag(b) ==
    IF b = "replicate" THEN "replicate"
    ELSE IF b = "ml_service" THEN "ml_service"
    ELSE "local_models"

\* the backend whose result the chain returned
Producer == invoked[Len(invoked)]

\* result is the dict r a backend returned, up to the conversion of a
\* Replicate answer and the added tag
Carries(result, r) ==
    IF "replicate_analysis" \in DOMAIN result
    THEN result.replicate_analysis = r
    ELSE \A k \in DOMAIN r : k \in DOMAIN result /\ result[k] = r[k]

\* C3: in one call the backends are invoked in the order vision-language,
\* remote service, local, each at most once; a backend is invoked only
\* after every backend tried before it returned a result with error set;
\* the first result without error is returned and no backend is invoked
\* after it.
C3_SequentialFallback ==
    /\ Len(invoked) <= 3
    /\ cpc # "idle" => invoked[1] = "replicate"
    /\ \A i, j \in 1..Len(invoked) :
          i < j => BackendRank(invoked[i]) < BackendRank(invoked[j])
    /\ Len(returned) \in {Len(invoked) - 1, Len(invoked)}
    /\ \A i \in 1..(Len(invoked) - 1) : HasError(returned[i])
    /\ \A i \in 1..Len(returned) :
          ~HasError(returned[i]) =>
              /\ i = Len(invoked)
              /\ cpc = "done"
              /\ ~HasError(chainResult)
              /\ Carries(chainResult, returned[i])

\* C3 witness: Replicate failed, the ML service succeeded and its result
\* was returned without a call of the local models
C3_Witness ==
    /\ cpc = "done"
    /\ invoked = <<"replicate", "ml_service">>
    /\ HasError(returned[1])
    /\ ~HasError(chainResult)
    /\ chainResult.quality = 90

\* C4: when every backend tried returned a result with error set, the
\* chain returns the error result of the last backend tried; with backend
\* 1 timing out, backend 2 returning error and backend 3 succeeding, it
\* returns backend 3's result.
C4_LastErrorReturned ==
    cpc = "done" =>
        /\ Len(returned) = Len(invoked)
        /\ (\A i \in 1..Len(returned) : HasError(returned[i])) =>
               /\ HasError(chainResult)
               /\ Carries(chainResult, returned[Len(returned)])
        /\ (/\ Len(returned) = 3
            /\ returned[1] = [error |-> "Replicate timeout"]
            /\ HasError(returned[2])
            /\ ~HasError(returned[3])) =>
               chainResult = returned[3]

\* C4 witness: all three backends were tried and failed, and the chain
\* returned the local backend's error
C4_Witness ==
    /\ cpc = "done"
    /\ invoked = <<"replicate", "ml_service", "local">>
    /\ returned[1] = [error |-> "No structured output"]
    /\ returned[2] = [error |-> "ML service error"]
    /\ chainResult = [error |-> "model fault", analysis_source |-> "error"]

\* C5: when the image is undecodable, no backend other than the one that
\* detected it is invoked for that call.
C5_NoFallbackOnInvalidInput ==
    (cpc = "done" /\ Get(chainResult, "error", "") = "Invalid image") =>
        invoked = <<Producer>>

\* C6: every backend invocation is bounded by a timeout: while a backend
\* is in flight the chain can always take its next step, whatever the
\* backend does.
C6_EveryInvocationBounded ==
    cpc \in {"replicate", "ml_service", "local"} =>
        ENABLED (ReplicateReturn \/ MlReturn \/ LocalReturn)

\* C7 as stated: every returned result, successful or errored, carries a
\* source tag naming the backend that produced it.
C7_EveryResultTagged ==
    cpc = "done" =>
        /\ "analysis_source" \in DOMAIN chainResult
        /\ chainResult.analysis_source = SourceTag(Producer)

\* C7 amended: every returned result without error carries a source tag
\* naming the backend that produced it; a result is tagged as
\* vision-language exactly when the vision-language backend produced it.
C7_SuccessTagged ==
    cpc = "done" =>
        /\ ~HasError(chainResult) =>
               /\ "analysis_source" \in DOMAIN chainResult
               /\ chainResult.analysis_source = SourceTag(Producer)
        /\ (Get(chainResult, "analysis_source", "") = "replicate")
               <=> (Producer = "replicate")

\* C7 witness: scenario C: Replicate timed out, the ML service failed, the
\* local models produced quality 0.8 and the result is tagged local
C7_Witness ==
    /\ cpc = "done"
    /\ returned[1] = [error |-> "Replicate timeout"]
    /\ Len(returned) = 3
    /\ HasError(returned[2])
    /\ ~HasError(chainResult)
    /\ chainResult.quality = 80
    /\ chainResult.analysis_source = "local_models"

(***************************************************************************)
(* Properties of the photo store and the sessions (checked under           *)
(* SessionSpec)                                                            *)
(***************************************************************************)
\* one of the orders glob can give
SomeOrder(store) == CHOOSE order \in GlobOrders(store) : TRUE

\* the record GET /sessions gives for a session id (the default record when
\* no stored frame carries the id)
SessionOf(store, session_id) ==
    LET listed == get_sessions(store, SomeOrder(store)).sessions
        found == {i \in DOMAIN listed : listed[i].session_id = session_id} IN
    IF found = {} THEN DefaultSession ELSE listed[CHOOSE i \in found : TRUE]

\* the running aggregates of a session: frame count, counters and mean
Aggregates(store, session_id) ==
    LET rec == SessionOf(store, session_id) IN
    <<rec.total_photos, rec.good_positions, rec.poor_positions,
      rec.no_cpr_detected, rec.average_confidence>>

\* the step is one served POST /upload-photo
UploadStep == nreq' = nreq + 1 /\ last'.op = "upload"

\* the session ids that some stored frame carries
KnownSessions(store) == {store[name].session_id : name \in DOMAIN store}

\* C13: in every session GET /sessions lists, the frame count is the sum of
\* the three category counters and the number of stored frames
C13_CountersSumToFrames ==
    response.success =>
        \A i \in DOMAIN response.sessions :
            LET rec == response.sessions[i] IN
            /\ rec.total_photos = rec.good_positions + rec.poor_positions
                                      + rec.no_cpr_detected
            /\ rec.total_photos = Len(rec.photos)

\* the sum of the confidence values of the frames without error
RECURSIVE SumConfidence(_)
SumConfidence(photos) ==
    IF photos = <<>> THEN 0
    ELSE (IF HasError(Head(photos).analysis) THEN 0
          ELSE Get(Head(photos).analysis, "confidence", 0))
         + SumConfidence(Tail(photos))

\* C14: in every session GET /sessions lists, the running mean equals the
\* arithmetic mean of the scores of the session's frames without error
C14_RunningMeanIsBatchMean ==
    response.success =>
        \A i \in DOMAIN response.sessions :
            LET rec == response.sessions[i]
                valid == {k \in DOMAIN rec.photos :
                             ~HasError(rec.photos[k].analysis)}
                avg == rec.average_confidence IN
            valid # {} =>
                avg.num * Cardinality(valid)
                    = SumConfidence(rec.photos) * avg.den

\* C15: a frame uploaded for a session that has been ended is refused and
\* leaves the session's record as it was
C15_EndedRejectsFrames ==
    [][(/\ UploadStep
        /\ last'.session_id \in DOMAIN table
        /\ table[last'.session_id].state = "ended") =>
           /\ last'.status # 200
           /\ SessionOf(files', last'.session_id)
                  = SessionOf(files, last'.session_id)]_vars

\* C16: a frame uploaded with a session id that no start call returned is
\* refused and the set of known sessions stays as it was
C16_UnknownSessionRejected ==
    [][(UploadStep /\ last'.session_id \notin DOMAIN table) =>
           /\ last'.status # 200
           /\ KnownSessions(files') = KnownSessions(files)]_vars

\* C17: every successful upload for a session raises the session's frame
\* count by exactly one and keeps the frames that were there
C17_NoLostFrames ==
    [][(UploadStep /\ last'.status = 200) =>
           LET before == SessionOf(files, last'.session_id)
               after == SessionOf(files', last'.session_id) IN
           /\ after.total_photos = before.total_photos + 1
           /\ \A k \in DOMAIN before.photos :
                  \E j \in DOMAIN after.photos :
                      after.photos[j] = before.photos[k]]_vars

\* C18: an upload for one session leaves the record of every other session
\* as it was
C18_OtherSessionsUntouched ==
    [][UploadStep =>
           \A other \in SessionIds \ {last'.session_id} :
               SessionOf(files', other) = SessionOf(files, other)]_vars

\* C19: an upload whose analysis failed leaves the counters and the mean of
\* its session as they were
C19_ErroredFrameNotCounted ==
    [][(/\ UploadStep
        /\ last'.status = 200
        /\ HasError(last'.analysis)) =>
           Aggregates(files', last'.session_id)
               = Aggregates(files, last'.session_id)]_vars

\* C20: with neither the pose detector nor the regression model loaded, the
\* local analysis of a decodable image gives no error, pose_detected false
\* and every metric at its default (arm angle 0, depth 0, hand 0.5 / 0.5,
\* quality 0, phase 0); it gives an error only for an image that does not
\* decode or on an internal fault
C20_NoModelGivesDefaults ==
    (/\ last.op = "analyze"
     /\ last.analysed # NoImage
     /\ ~pose_detector /\ ~cnn_model) =>
        LET img == last.analysed
            a == last.analysis
            healthy == img.decodable /\ img.fault = "none"
            defaults == [pose_detected |-> FALSE, arm_angle |-> 0,
                         depth |-> 0, hand_x |-> 50, hand_y |-> 50,
                         quality |-> 0, phase |-> 0] IN
        /\ healthy =>
               /\ a = defaults
               /\ last.status = 200
               /\ analyze_cpr_image_local(img, FALSE, FALSE)
                      = Put(defaults, "analysis_source", "local_models")
        /\ HasError(a) <=> ~healthy
        /\ HasError(analyze_cpr_image_local(img, FALSE, FALSE)) <=> ~healthy

\* C20 witness: an image that decodes and carries landmarks and model
\* outputs was analysed with nothing loaded: no error, no pose, quality 0
C20_Witness ==
    /\ last.op = "analyze"
    /\ last.status = 200
    /\ last.analysed # NoImage
    /\ last.analysed.decodable
    /\ last.analysed.fault = "none"
    /\ last.analysed.landmarks.found
    /\ last.analysed.predictions[9] = 80
    /\ ~pose_detector /\ ~cnn_model
    /\ ~HasError(last.analysis)
    /\ last.analysis.quality = 0
    /\ ~last.analysis.pose_detected


(***************************************************************************)
(* Further properties of the backends (checked under ChainSpec)            *)
(***************************************************************************)
\* C21: a backend fault is returned as a dict with the error key, never
\* raised: the ML service call on a timeout, a non-200 response, an
\* exception or a missing client, and the local analysis (both modules) on
\* an undecodable image or an internal fault; the chain then still ends
\* with a returned dict
C21_BackendsNeverRaise ==
    [][/\ (cpc = "ml_service" /\ cpc' # "ml_service") =>
              LET ml_result == returned'[Len(returned')]
                  served == pending.kind = "response" /\ pending.status = 200
              IN
              /\ DOMAIN ml_result # {}
              /\ ~served => HasError(ml_result)
              /\ served => ~HasError(ml_result)
              /\ HasError(analyze_with_ml_service(FALSE, pending))
              /\ cpc' \in {"local", "done"}
       /\ (cpc = "local" /\ cpc' # "local") =>
              LET local_result == returned'[Len(returned')]
                  healthy == image.decodable /\ image.fault = "none" IN
              /\ cpc' = "done"
              /\ chainResult' = local_result
              /\ ~healthy => HasError(local_result)
              /\ ~healthy => HasError(analyze_cpr_image(
                                 image, pose_detector, cnn_model))]_vars

\* C21 witness: the ML service call ended in an exception and the local
\* analysis in a model fault; both came back as dicts with the error key
\* and the chain returned the last one
C21_Witness ==
    /\ cpc = "done"
    /\ invoked = <<"replicate", "ml_service", "local">>
    /\ returned[2] = [error |-> "connection failed"]
    /\ image.decodable
    /\ image.fault = "model fault"
    /\ HasError(chainResult)


(***************************************************************************)
(* Further properties of the local analysis (checked under AnalyzeSpec)    *)
(***************************************************************************)
\* the image was analysed without a fault
AnalysedHealthy ==
    /\ last.op = "analyze"
    /\ last.analysed # NoImage
    /\ last.analysed.decodable
    /\ last.analysed.fault = "none"

\* C22: every model output the local analysis uses is denormalized with
\* value = normalized * (max - min) + min before it is stored: depth over
\* [0, 5] inches, the hand offsets over [-10, 10] inches, phase and quality
\* over [0, 1] (grid: hundredths)
C22_OutputsDenormalized ==
    (AnalysedHealthy /\ cnn_model) =>
        LET predictions == last.analysed.predictions
            a == last.analysis IN
        /\ a.depth = predictions[2] * 5
        /\ a.hand_offset_x = predictions[4] * 20 - 1000
        /\ a.hand_offset_y = predictions[5] * 20 - 1000
        /\ a.phase = predictions[8]
        /\ a.quality = predictions[9]

\* C23: with the landmarks of both arms available the reported arm angle
\* is the mean of the left and the right elbow angle
C23_ArmAngleIsMean ==
    (AnalysedHealthy /\ pose_detector /\ last.analysed.landmarks.found) =>
        2 * last.analysis.arm_angle
            = last.analysed.landmarks.left_angle
                  + last.analysed.landmarks.right_angle


(***************************************************************************)
(* The session lifecycle (checked under LifecycleSpec)                     *)
(***************************************************************************)
\* C24: a start call succeeds and returns an identifier that no earlier
\* start call returned; a get call right after it succeeds and reports the
\* user given at start; an upload of an image for an active session
\* succeeds; an end call for a started session succeeds and ends it
C24_SessionLifecycle ==
    [][/\ (nreq' = nreq + 1 /\ last'.op = "start") =>
              /\ last'.status = 200
              /\ last'.session_id \notin DOMAIN table
              /\ last'.session_id \in DOMAIN table'
              /\ table'[last'.session_id].state = "active"
              /\ \A id \in DOMAIN table : table'[id] = table[id]
       /\ (/\ last.op = "start"
           /\ last'.op = "get"
           /\ last'.session_id = last.session_id) =>
              /\ last'.status = 200
              /\ last'.session.session_id = last.session_id
              /\ last'.session.user_id = last.user_id
       /\ (/\ UploadStep
           /\ last'.session_id \in DOMAIN table
           /\ table[last'.session_id].state = "active"
           /\ last'.analysed # NoImage) =>
              /\ last'.status = 200
              /\ last'.session_id \in KnownSessions(files')
       /\ (/\ nreq' = nreq + 1
           /\ last'.op = "end"
           /\ last'.session_id \in DOMAIN table) =>
              /\ last'.status = 200
              /\ table'[last'.session_id].state = "ended"]_vars

\* C24 witness: a session was started, a frame was uploaded for it and the
\* session was ended
C24_Witness ==
    /\ last.op = "end"
    /\ last.status = 200
    /\ table[last.session_id].state = "ended"
    /\ last.session_id \in KnownSessions(files)
    /\ nreq = 3


\* the chain returned the mapped answer of the ML service
ServedByMlService ==
    /\ cpc = "done"
    /\ invoked[Len(invoked)] = "ml_service"
    /\ pending.kind = "response"
    /\ pending.status = 200

\* C26: a result mapped from the ML service carries the service's
\* hand_position_error unchanged as hand_x (0.5 when absent), and
\* generate_guidance gives the centring message for it exactly when
\* |hand_position_error - 0.5| > 0.15: for 0 it does, for 0.5 it does not
C26_HandErrorPassedThrough ==
    ServedByMlService =>
        LET metrics == Get(pending.body, "metrics", EmptyDict)
            hpe == Get(metrics, "hand_position_error", 50)
            fb == generate_guidance(chainResult).all_feedback
            centring == \E i \in DOMAIN fb :
                            fb[i] = "CENTER YOUR HANDS on the chest" IN
        /\ chainResult.hand_x = hpe
        /\ centring <=> Abs(hpe - 50) > 15
        /\ hpe = 0 => centring
        /\ hpe = 50 => ~centring

\* C26 witness: the service reported hand_position_error 0 and the
\* guidance for the mapped result holds the centring message
C26_Witness ==
    /\ ServedByMlService
    /\ pending.body.detected
    /\ pending.body.metrics.hand_position_error = 0
    /\ chainResult.hand_x = 0
    /\ chainResult.analysis_source = "ml_service"
    /\ \E i \in DOMAIN generate_guidance(chainResult).all_feedback :
           generate_guidance(chainResult).all_feedback[i] = MSG_HAND


\* C25: the guidance upload_photo stores for a frame analysed by the
\* Mentra glasses has priority good exactly when its feedback list is
\* empty, and otherwise its instruction is the first feedback entry
C25_MentraGuidanceInvariant ==
    \A name \in DOMAIN files :
        LET g == files[name].guidance IN
        Get(files[name].analysis, "source", None) = "mentra_glasses" =>
            /\ g.priority = "good" <=> g.all_feedback = <<>>
            /\ g.all_feedback # <<>> => g.instruction = g.all_feedback[1]

\* C27: for the all-default result without error (no pose detected, no
\* regression model loaded) no rule fires: priority good, instruction
\* "Good CPR technique! Keep going!", empty feedback
C27_DefaultResultIsGood ==
    (/\ AnalysedHealthy
     /\ ~cnn_model
     /\ ~(pose_detector /\ last.analysed.landmarks.found)) =>
        LET g == generate_guidance(last.analysis) IN
        /\ ~last.analysis.pose_detected
        /\ last.analysis.depth = 0
        /\ last.analysis.hand_x = 50
        /\ g.priority = "good"
        /\ g.instruction = "Good CPR technique! Keep going!"
        /\ g.all_feedback = <<>>
        /\ last.status = 200
        /\ last.response.analysis.position = "good"
        /\ last.response.guidance = "Good CPR technique! Keep going!"
        /\ last.response.detailed_feedback = <<>>

\* C27 witness: the detector is loaded but finds no pose, no model is
\* loaded, and the answer of the analysis call is the good-technique one
C27_Witness ==
    /\ AnalysedHealthy
    /\ pose_detector /\ ~cnn_model
    /\ ~last.analysed.landmarks.found
    /\ last.analysis = LocalDefaults
    /\ last.response.guidance = MSG_GOOD
    /\ last.response.detailed_feedback = <<>>


\* the timestamps of the photos of a listed session
PhotoTimes(rec) ==
    {rec.photos[k].timestamp : k \in DOMAIN rec.photos} \ {NoTime}

\* C28: in every session GET /sessions lists that has a photo with a
\* timestamp, start_time is the least and end_time the greatest timestamp
\* of its photos, in whatever order the files were processed
C28_StartEndAreMinMax ==
    response.success =>
        \A i \in DOMAIN response.sessions :
            LET rec == response.sessions[i] IN
            PhotoTimes(rec) # {} =>
                /\ rec.start_time \in PhotoTimes(rec)
                /\ rec.end_time \in PhotoTimes(rec)
                /\ \A t \in PhotoTimes(rec) :
                       rec.start_time <= t /\ t <= rec.end_time


(***************************************************************************)
(* C29                                                                     *)
(***************************************************************************)
\* the smallest integer not below n / k
Ceil(n, k) == (n + k - 1) \div k

\* C29: on a video of N readable frames and an interval k >= 1 the
\* extraction terminates, having read all N frames; it has then saved
\* exactly the frames whose 0-based index is a multiple of k and returns
\* their number, ceil(N / k); for a video that cannot be opened it returns
\* 0 and saves no frame
C29_ExtractFrames ==
    /\ [](xpc = "done" =>
            IF cap.opened
            THEN /\ cap.pos = cap.frames
                 /\ written = {i \in 0..(cap.frames - 1) :
                                   i % frame_interval = 0}
                 /\ extracted = Cardinality(written)
                 /\ extracted = Ceil(cap.frames, frame_interval)
            ELSE /\ extracted = 0
                 /\ written = {}
                 /\ cap.pos = 0)
    /\ (xpc = "loop" ~> xpc = "done")

\* a video of 7 frames was extracted with interval 3: frames 0, 3 and 6
\* were saved and 3 was returned
C29_Witness ==
    /\ xpc = "done"
    /\ cap.opened
    /\ cap.frames = 7
    /\ frame_interval = 3
    /\ written = {0, 3, 6}
    /\ extracted = 3


(***************************************************************************)
(* C30                                                                     *)
(***************************************************************************)
\* C30: at start-up of main.py the TFLite file is tried first and the Keras
\* file only when there is no TFLite file; the pose detector is initialised
\* only if the model loading did not raise; when the loading raised, both
\* cnn_model and pose_detector stay unset, and analyze_cpr_image then gives
\* the all-default result without error for every decodable image (the
\* images marked with a fault stand for an exception raised inside the
\* function, which gives the error dict whatever is loaded)
C30_StartupLoading ==
    bpc = "started" =>
        /\ (boot.loader = "tflite") <=> disk.tflite
        /\ (boot.loader = "keras") <=> (~disk.tflite /\ disk.keras)
        /\ pose_detector => boot.raised = "none"
        /\ cnn_model => boot.raised # "load"
        /\ boot.raised = "load" =>
               /\ ~cnn_model
               /\ ~pose_detector
               /\ (/\ last.op = "analyze"
                   /\ last.analysed # NoImage
                   /\ last.analysed.decodable) =>
                      IF last.analysed.fault = "none"
                      THEN /\ last.analysis = LocalDefaults
                           /\ ~HasError(last.analysis)
                           /\ last.status = 200
                      ELSE last.analysis = [error |-> last.analysed.fault]

\* both model files exist, the TFLite loader raised, and a decodable image
\* with landmarks was then analysed to the defaults
C30_Witness ==
    /\ bpc = "started"
    /\ disk = [tflite |-> TRUE, keras |-> TRUE]
    /\ boot = [loader |-> "tflite", raised |-> "load"]
    /\ ~cnn_model /\ ~pose_detector
    /\ last.op = "analyze"
    /\ last.analysed # NoImage
    /\ last.analysed.decodable
    /\ last.analysed.fault = "none"
    /\ last.analysed.landmarks.found
    /\ last.analysis = LocalDefaults

====
